---- MODULE Spec2Model ----
(***************************************************************************)
(* Model of src/c2.py: class MaxProfit (optimal single-stock trading).     *)
(*                                                                         *)
(* Money is kept in fixed point: one currency unit is Scale model units,   *)
(* so that prices and budgets may be fractions and math.ceil is a real     *)
(* rounding.  -float("inf") is the value NegInf, which absorbs additions   *)
(* and subtractions and loses every max().                                 *)
(***************************************************************************)
EXTENDS Integers, Sequences, FiniteSets

\* ---------------------------------------------------------------- bounds
Scale == 2
MaxLen == 3
MaxPrice == 3
MaxBudget == 4

\* ------------------------------------------------------- numeric domain
NegInf == -1000000

Max(a, b) == IF a >= b THEN a ELSE b

\* x + p and x - p for a float x that may be -inf and a finite p
FAdd(x, p) == IF x = NegInf THEN NegInf ELSE x + p

FSub(x, p) == IF x = NegInf THEN NegInf ELSE x - p

RECURSIVE Sum(_)
Sum(ps) == IF ps = <<>> THEN 0 ELSE Head(ps) + Sum(Tail(ps))

\* math.ceil on a non-negative fixed-point number
Ceil(x) == ((x + Scale - 1) \div Scale) * Scale

\* Optional[float]: None is the empty tuple, a supplied value b is <<b>>
None == <<>>

\* -------------------------------------------------------------- inputs
example1 == <<2 * Scale, 5 * Scale, 1 * Scale>>

example2 == <<2 * Scale, 5 * Scale, 1 * Scale, 3 * Scale>>

PriceSeqs == UNION {[1..n -> 0..MaxPrice] : n \in 0..MaxLen}

Inputs == PriceSeqs \cup {example1, example2}

Budgets == {None} \cup {<<b>> : b \in (-Scale)..MaxBudget}

VARIABLES prices_arg, budget_arg, pc, prices, initial_budget,
          it, cash_with_stock, cash_without_stock,
          stack, cache, evals, returned

vars == <<prices_arg, budget_arg, pc, prices, initial_budget,
          it, cash_with_stock, cash_without_stock,
          stack, cache, evals, returned>>

Keys == (-1..(Len(prices_arg) - 1)) \X BOOLEAN

\* ---------------------------------------------------------- __init__
ResolveBudgetZero(ps, b) == IF b = None THEN 0 ELSE b[1]

ResolveBudget(ps, b) == IF b = None THEN Ceil(Sum(ps) + Scale) ELSE b[1]

Init ==
    /\ prices_arg \in Inputs
    /\ budget_arg \in Budgets
    /\ pc = "new"
    /\ prices = <<>>
    /\ initial_budget = 0
    /\ it = 0
    /\ cash_with_stock = NegInf
    /\ cash_without_stock = 0
    /\ stack = <<>>
    /\ cache = <<>>
    /\ evals = [k \in Keys |-> 0]
    /\ returned = [s \in BOOLEAN |-> {}]

\* float(x) keeps the value of every number of the fixed-point domain
MaxProfitInit ==
    /\ pc = "new"
    /\ prices' = [d \in 1..Len(prices_arg) |-> prices_arg[d]]
    /\ initial_budget' = ResolveBudget(prices_arg, budget_arg)
    /\ pc' = "idle"
    /\ UNCHANGED <<prices_arg, budget_arg, it, cash_with_stock,
                   cash_without_stock, stack, cache, evals, returned>>

\* ---------------------------------------------------------- _bottom_up
solve_bottom_up ==
    /\ pc = "idle"
    /\ pc' = "bottom_up"
    /\ it' = 0
    /\ cash_with_stock' = NegInf
    /\ cash_without_stock' = initial_budget
    /\ UNCHANGED <<prices_arg, budget_arg, prices, initial_budget,
                   stack, cache, evals, returned>>

\* mutants of one loop iteration
BottomUpDayNoClamp(cw, cwo, price) ==
    <<Max(FSub(cwo, price), cw), Max(cwo, FAdd(cw, price))>>

BottomUpDayBuyForDoNotBuy(cw, cwo, price) ==
    LET buy == FSub(cwo, price)
        hold == cw
        sold == FAdd(cw, price)
        with == Max(buy, hold)
    IN  <<IF with < 0 THEN NegInf ELSE with, Max(buy, sold)>>

BottomUpDayClampAtZero(cw, cwo, price) ==
    LET buy == FSub(cwo, price)
        hold == cw
        do_not_buy == cwo
        sold == FAdd(cw, price)
        with == Max(buy, hold)
    IN  <<IF with <= 0 THEN NegInf ELSE with, Max(do_not_buy, sold)>>

\* one loop iteration: <<cash_with_stock, cash_without_stock>> after it
BottomUpDay(cw, cwo, price) ==
    LET buy == FSub(cwo, price)
        hold == cw
        do_not_buy == cwo
        sold == FAdd(cw, price)
        with == Max(buy, hold)
    IN  <<IF with < 0 THEN NegInf ELSE with, Max(do_not_buy, sold)>>

bottom_up_day ==
    /\ pc = "bottom_up"
    /\ it < Len(prices)
    /\ LET nxt == BottomUpDay(cash_with_stock, cash_without_stock,
                              prices[it + 1])
       IN  /\ cash_with_stock' = nxt[1]
           /\ cash_without_stock' = nxt[2]
    /\ it' = it + 1
    /\ UNCHANGED <<prices_arg, budget_arg, pc, prices, initial_budget,
                   stack, cache, evals, returned>>

bottom_up_return_consuming ==
    /\ pc = "bottom_up"
    /\ it = Len(prices)
    /\ returned' = [returned EXCEPT ![TRUE] =
                        @ \cup {FSub(cash_without_stock, initial_budget)}]
    /\ pc' = "idle"
    /\ it' = 0
    /\ cash_with_stock' = NegInf
    /\ cash_without_stock' = 0
    /\ prices' = <<>>
    /\ UNCHANGED <<prices_arg, budget_arg, initial_budget,
                   stack, cache, evals>>

bottom_up_return ==
    /\ pc = "bottom_up"
    /\ it = Len(prices)
    /\ returned' = [returned EXCEPT ![TRUE] =
                        @ \cup {FSub(cash_without_stock, initial_budget)}]
    /\ pc' = "idle"
    /\ it' = 0
    /\ cash_with_stock' = NegInf
    /\ cash_without_stock' = 0
    /\ UNCHANGED <<prices_arg, budget_arg, prices, initial_budget,
                   stack, cache, evals>>

\* ----------------------------------------------------------- _top_down
CacheHitNever(c, key) == FALSE

\* functools.lru_cache(maxsize=None): is the key stored?
CacheHit(c, key) == key \in DOMAIN c

\* functools.lru_cache: cache[key] = result
CacheStore(c, key, v) ==
    [k \in DOMAIN c \cup {key} |-> IF k = key THEN v ELSE c[k]]

Frame(d, hs) == [day |-> d, has_stock |-> hs, got |-> <<>>]

Top == stack[Len(stack)]

Pop == SubSeq(stack, 1, Len(stack) - 1)

\* mutants of the body of _top_down
top_down_no_clamp(d, hs, prev_without, prev_with) ==
    IF d < 0
    THEN IF hs THEN NegInf ELSE initial_budget
    ELSE IF hs
         THEN Max(FSub(prev_without, prices[d + 1]), prev_with)
         ELSE Max(prev_without, FAdd(prev_with, prices[d + 1]))

top_down_base_zero(d, hs, prev_without, prev_with) ==
    IF d < 0
    THEN IF hs THEN NegInf ELSE 0
    ELSE IF hs
         THEN LET net_worth == Max(FSub(prev_without, prices[d + 1]), prev_with)
              IN  IF net_worth < 0 THEN NegInf ELSE net_worth
         ELSE Max(prev_without, FAdd(prev_with, prices[d + 1]))

top_down_sell_for_free(d, hs, prev_without, prev_with) ==
    IF d < 0
    THEN IF hs THEN NegInf ELSE initial_budget
    ELSE IF hs
         THEN LET net_worth == Max(FSub(prev_without, prices[d + 1]), prev_with)
              IN  IF net_worth < 0 THEN NegInf ELSE net_worth
         ELSE Max(prev_without, prev_with)

\* the body of _top_down, given the values of its two recursive calls
\* _top_down(day - 1, False) and _top_down(day - 1, True)
top_down(d, hs, prev_without, prev_with) ==
    IF d < 0
    THEN IF hs THEN NegInf ELSE initial_budget
    ELSE IF hs
         THEN LET net_worth == Max(FSub(prev_without, prices[d + 1]), prev_with)
              IN  IF net_worth < 0 THEN NegInf ELSE net_worth
         ELSE Max(prev_without, FAdd(prev_with, prices[d + 1]))

\* solve(bottom_up=False): the outermost call _top_down(last_day, False)
solve_top_down ==
    /\ pc = "idle"
    /\ LET key == <<Len(prices) - 1, FALSE>>
       IN  IF CacheHit(cache, key)
           THEN /\ returned' = [returned EXCEPT ![FALSE] =
                                    @ \cup {FSub(cache[key], initial_budget)}]
                /\ UNCHANGED <<pc, stack, evals>>
           ELSE /\ stack' = <<Frame(key[1], key[2])>>
                /\ evals' = [evals EXCEPT ![key] = @ + 1]
                /\ pc' = "top_down"
                /\ UNCHANGED returned
    /\ UNCHANGED <<prices_arg, budget_arg, prices, initial_budget,
                   it, cash_with_stock, cash_without_stock, cache>>

\* the key of the next recursive call of the running body: in both branches
\* the call with has_stock=False comes first, the one with True second
NextKey == <<Top.day - 1, Len(Top.got) = 1>>

Calling ==
    /\ pc = "top_down"
    /\ Top.day >= 0
    /\ Len(Top.got) < 2

\* a recursive call answered by the cache
top_down_hit ==
    /\ Calling
    /\ CacheHit(cache, NextKey)
    /\ stack' = [stack EXCEPT ![Len(stack)].got = Append(@, cache[NextKey])]
    /\ UNCHANGED <<prices_arg, budget_arg, pc, prices, initial_budget,
                   it, cash_with_stock, cash_without_stock,
                   cache, evals, returned>>

\* a recursive call that has to run the body
top_down_miss ==
    /\ Calling
    /\ ~CacheHit(cache, NextKey)
    /\ stack' = Append(stack, Frame(NextKey[1], NextKey[2]))
    /\ evals' = [evals EXCEPT ![NextKey] = @ + 1]
    /\ UNCHANGED <<prices_arg, budget_arg, pc, prices, initial_budget,
                   it, cash_with_stock, cash_without_stock,
                   cache, returned>>

\* the running body returns: its value is stored and handed to the caller
top_down_return ==
    /\ pc = "top_down"
    /\ Top.day < 0 \/ Len(Top.got) = 2
    /\ LET v == IF Top.day < 0
                THEN top_down(Top.day, Top.has_stock, NegInf, NegInf)
                ELSE top_down(Top.day, Top.has_stock, Top.got[1], Top.got[2])
       IN  /\ cache' = CacheStore(cache, <<Top.day, Top.has_stock>>, v)
           /\ IF Len(stack) = 1
              THEN /\ stack' = <<>>
                   /\ returned' = [returned EXCEPT ![FALSE] =
                                       @ \cup {FSub(v, initial_budget)}]
                   /\ pc' = "idle"
              ELSE /\ stack' = [Pop EXCEPT ![Len(stack) - 1].got = Append(@, v)]
                   /\ UNCHANGED <<returned, pc>>
    /\ UNCHANGED <<prices_arg, budget_arg, prices, initial_budget,
                   it, cash_with_stock, cash_without_stock, evals>>

Next ==
    \/ MaxProfitInit
    \/ solve_bottom_up
    \/ bottom_up_day
    \/ bottom_up_return
    \/ solve_top_down
    \/ top_down_hit
    \/ top_down_miss
    \/ top_down_return

Spec == Init /\ [][Next]_vars

\* ------------------------------------------------------------ reference
\* Exhaustive search over trading schedules, independent of both strategies:
\* the largest final cash over all ways to own zero or one unit at the end
\* of each of the days d..Len(ps), ending with no position.  With limited,
\* a buy that would leave negative cash is not allowed.  NegInf when no
\* schedule is allowed.
RECURSIVE BestCash(_, _, _, _, _)
BestCash(ps, d, own, cash, limited) ==
    IF d > Len(ps)
    THEN IF own THEN NegInf ELSE cash
    ELSE LET keep == BestCash(ps, d + 1, own, cash, limited)
             switch == IF own
                       THEN BestCash(ps, d + 1, FALSE, cash + ps[d], limited)
                       ELSE IF limited /\ cash - ps[d] < 0
                            THEN NegInf
                            ELSE BestCash(ps, d + 1, TRUE, cash - ps[d], limited)
         IN  Max(keep, switch)

Omitted == budget_arg = None

Supplied == budget_arg # None /\ budget_arg[1] >= 0

AllReturned == returned[TRUE] \cup returned[FALSE]

HoldKeys == {k \in DOMAIN cache : k[2]}

FreeKeys == {k \in DOMAIN cache : ~k[2]}

\* ---------------------------------------------------------------- claims

\* C1: for non-negative prices and a budget that is omitted or non-negative,
\* every value returned by solve(bottom_up=True) equals every value returned
\* by solve(bottom_up=False) on the same instance.
C1_StrategyEquivalence ==
    (Omitted \/ Supplied) =>
        \A a \in returned[TRUE] : \A b \in returned[FALSE] : a = b

C1_Witness ==
    /\ Supplied
    /\ returned[TRUE] # {}
    /\ returned[FALSE] # {}
    /\ \E d \in 0..(Len(prices) - 1) : <<d, TRUE>> \in DOMAIN cache
                                        /\ cache[<<d, TRUE>>] = NegInf
    /\ \E a \in returned[TRUE] : a > 0

\* C2: a supplied negative budget makes construction fail, so no instance
\* (a state past "new") exists for such arguments.
C2_NegativeBudgetRejected ==
    (budget_arg # None /\ budget_arg[1] < 0) => pc = "new"

\* C3: with the budget omitted, every value solve returns, with either
\* strategy, is the best profit over all schedules with no cash limit; the
\* book examples give 3 and 5.
C3_UnlimitedOptimal ==
    Omitted =>
        \A r \in AllReturned :
            /\ r = BestCash(prices_arg, 1, FALSE, 0, FALSE)
            /\ prices_arg = example1 => r = 3 * Scale
            /\ prices_arg = example2 => r = 5 * Scale

C3_Witness ==
    /\ Omitted
    /\ prices_arg = example2
    /\ returned[TRUE] = {5 * Scale}
    /\ returned[FALSE] = {5 * Scale}

\* C4: with a non-negative budget b supplied, every value solve returns, with
\* either strategy, is the best (final cash - b) over all schedules that
\* start with cash b and never buy into negative cash.
C4_BudgetOptimal ==
    Supplied =>
        \A r \in AllReturned :
            r = BestCash(prices_arg, 1, FALSE, budget_arg[1], TRUE) - budget_arg[1]

C4_Witness ==
    /\ Supplied
    /\ returned[TRUE] # {}
    /\ returned[FALSE] # {}
    /\ \E r \in returned[TRUE] :
           /\ r > 0
           /\ r < BestCash(prices_arg, 1, FALSE, 0, FALSE)

C6_Idempotent ==
    /\ \A s \in BOOLEAN : \A a \in returned[s] : \A b \in returned[s] : a = b
    /\ pc # "new" => /\ prices = prices_arg
                     /\ initial_budget = ResolveBudget(prices_arg, budget_arg)

C6_Witness ==
    /\ pc = "bottom_up"
    /\ it = Len(prices)
    /\ Len(prices) > 0
    /\ returned[TRUE] # {}
    /\ returned[FALSE] # {}
    /\ returned[TRUE] = {FSub(cash_without_stock, initial_budget)}
    /\ \E a \in returned[TRUE] : a > 0

\* C7: with a non-negative budget supplied, the not-holding net worth is
\* >= 0 and the holding net worth is -inf or >= 0, after every day of the
\* sweep and for every cached value of the recursion.
C7_NoNegativeNetWorth ==
    Supplied =>
        /\ pc = "bottom_up" =>
               /\ cash_without_stock >= 0
               /\ cash_with_stock = NegInf \/ cash_with_stock >= 0
        /\ \A k \in FreeKeys : cache[k] >= 0
        /\ \A k \in HoldKeys : cache[k] = NegInf \/ cache[k] >= 0

C7_Witness ==
    /\ Supplied
    /\ pc = "bottom_up"
    /\ it >= 2
    /\ cash_with_stock = NegInf
    /\ \E k \in HoldKeys : k[1] >= 1 /\ cache[k] = NegInf
    /\ \E k \in HoldKeys : cache[k] >= 0

\* C8: with the budget omitted the clamp never fires: after every day of the
\* sweep, and for every has_stock = True value of the recursion with
\* day >= 0, the holding net worth is max(buy, hold) >= 0.
C8_ClampNeverFires ==
    Omitted =>
        /\ pc = "bottom_up" /\ it >= 1 => cash_with_stock >= 0
        /\ \A k \in HoldKeys : k[1] >= 0 => cache[k] >= 0

C8_Witness ==
    /\ Omitted
    /\ pc = "bottom_up"
    /\ it = Len(prices)
    /\ it >= 2
    /\ cash_with_stock >= 0
    /\ \A d \in 0..(Len(prices) - 2) : <<d, TRUE>> \in DOMAIN cache
    /\ \E d \in 1..Len(prices) : prices[d] = MaxPrice

\* C9: the body of _top_down runs at most once per (day, has_stock), and a
\* stored cache entry is never removed or replaced by a different value.
CacheOnlyGrows ==
    \A k \in DOMAIN cache : k \in DOMAIN cache' /\ cache'[k] = cache[k]

C9_ComputedOnce ==
    /\ [](\A k \in Keys : evals[k] <= 1)
    /\ [][CacheOnlyGrows]_vars

C9_Witness ==
    /\ pc = "idle"
    /\ Len(prices) >= 2
    /\ returned[FALSE] # {}
    /\ \A k \in Keys \ {<<Len(prices) - 1, TRUE>>} : evals[k] = 1 /\ k \in DOMAIN cache

\* C10: no value solve returns is negative, for any budget and both
\* strategies; the not-holding net worth never falls below the starting
\* budget and never decreases from one day to the next.
C10_ProfitNonNegative ==
    /\ \A r \in AllReturned : r >= 0
    /\ pc = "bottom_up" => cash_without_stock >= initial_budget
    /\ \A k \in FreeKeys :
           /\ cache[k] >= initial_budget
           /\ <<k[1] - 1, FALSE>> \in DOMAIN cache =>
                  cache[k] >= cache[<<k[1] - 1, FALSE>>]

C10_Witness ==
    /\ budget_arg # None
    /\ budget_arg[1] < 0
    /\ returned[TRUE] # {}
    /\ returned[FALSE] # {}
    /\ Len(prices) >= 2

====
